---------------------------- MODULE Spec2Model ----------------------------
(***************************************************************************)
(* protractor-retry: the retry orchestrator (runTests), the process        *)
(* supervisor (runProtractor) and the output parser (parseOutput) of       *)
(* src/index.js.                                                           *)
(*                                                                         *)
(* Text is modelled as sequences of one-character strings, so that trim,   *)
(* split, join and the three regular expressions are computed the way the  *)
(* JavaScript computes them.                                               *)
(***************************************************************************)
EXTENDS Integers, Sequences, FiniteSets, TLC

(***************************************************************************)
(* Bounds of the model.                                                    *)
(***************************************************************************)
\* the longest stdout (in lines) given to parseOutput in SpecParse
MaxLines == 3

\* the largest --max-retries the orchestrator is configured with
MaxRetriesBound == 3

\* the most 'data' events (stdout and stderr together) of one subprocess
MaxChunks == 2

(***************************************************************************)
(* Characters and character classes of the JavaScript regular expressions. *)
(***************************************************************************)
\* \s, and what String.prototype.trim removes
WhiteChars == {" ", "\t", "\n", "\r"}

DigitChars == {"0", "1", "2", "3", "4", "5", "6", "7", "8", "9"}

\* \w
WordChars ==
  DigitChars \cup {"_"} \cup
  {"a", "b", "c", "d", "e", "f", "g", "h", "i", "j", "k", "l", "m",
   "n", "o", "p", "q", "r", "s", "t", "u", "v", "w", "x", "y", "z"} \cup
  {"A", "B", "C", "D", "E", "F", "G", "H", "I", "J", "K", "L", "M",
   "N", "O", "P", "Q", "R", "S", "T", "U", "V", "W", "X", "Y", "Z"}

\* the literal word of failuresMarker
FailuresWord == <<"F", "a", "i", "l", "u", "r", "e", "s">>

(***************************************************************************)
(* String operations.                                                      *)
(***************************************************************************)
RECURSIVE SkipWhile(_, _, _)
\* the first position >= i of s whose character is not in class (Len(s)+1 when
\* there is none): a greedy  [class]*  starting at i
SkipWhile(s, i, class) ==
  IF i <= Len(s) /\ s[i] \in class THEN SkipWhile(s, i + 1, class) ELSE i

RECURSIVE SkipBackWhile(_, _, _)
\* the last position <= i of s whose character is not in class (0 when none)
SkipBackWhile(s, i, class) ==
  IF i >= 1 /\ s[i] \in class THEN SkipBackWhile(s, i - 1, class) ELSE i

\* String.prototype.trim
Trim(s) ==
  LET first == SkipWhile(s, 1, WhiteChars)
      last  == SkipBackWhile(s, Len(s), WhiteChars)
  IN  IF first > last THEN <<>> ELSE SubSeq(s, first, last)

RECURSIVE SplitFrom(_, _, _)
\* the pieces of s from position i on, cur being the piece under construction
SplitFrom(s, i, cur) ==
  IF i > Len(s) THEN <<cur>>
  ELSE IF s[i] = "\n" THEN <<cur>> \o SplitFrom(s, i + 1, <<>>)
  ELSE SplitFrom(s, i + 1, Append(cur, s[i]))

\* String.prototype.split('\n'): the empty string splits into one empty piece
Split(s) == SplitFrom(s, 1, <<>>)

RECURSIVE Join(_)
\* Array.prototype.join('\n')
Join(names) ==
  IF names = <<>> THEN <<>>
  ELSE IF Len(names) = 1 THEN names[1]
  ELSE names[1] \o <<"\n">> \o Join(Tail(names))

(***************************************************************************)
(* The three patterns of parseOutput.                                      *)
(***************************************************************************)
\* /^\*[\s]+Failures[\s]+\*/
IsFailuresMarker(line) ==
  LET w == SkipWhile(line, 2, WhiteChars)
      e == w + Len(FailuresWord)
      t == SkipWhile(line, e, WhiteChars)
  IN  /\ Len(line) >= 1
      /\ line[1] = "*"
      /\ w > 2
      /\ e - 1 <= Len(line)
      /\ SubSeq(line, w, e - 1) = FailuresWord
      /\ t > e
      /\ t <= Len(line)
      /\ line[t] = "*"

\* /^\*[\s]+[\w]+[\s]+\*/
IsOthersMarker(line) ==
  LET w == SkipWhile(line, 2, WhiteChars)
      e == SkipWhile(line, w, WordChars)
      t == SkipWhile(line, e, WhiteChars)
  IN  /\ Len(line) >= 1
      /\ line[1] = "*"
      /\ w > 2
      /\ e > w
      /\ t > e
      /\ t <= Len(line)
      /\ line[t] = "*"

\* /^[0-9]+\)[\s]+(.*)$/ matches
IsFailedSpec(line) ==
  LET p == SkipWhile(line, 1, DigitChars)
      n == SkipWhile(line, p + 1, WhiteChars)
  IN  /\ p > 1
      /\ p <= Len(line)
      /\ line[p] = ")"
      /\ n > p + 1
      /\ \A k \in n .. Len(line) : line[k] \notin {"\n", "\r"}

\* failedSpecData[1]: the capture group of the pattern above
FailedSpecName(line) ==
  LET p == SkipWhile(line, 1, DigitChars)
      n == SkipWhile(line, p + 1, WhiteChars)
  IN  SubSeq(line, n, Len(line))

(***************************************************************************)
(* parseOutput                                                             *)
(***************************************************************************)
\* what parseOutput returns: null, or the array failedSpecs
Null == [kind |-> "null", specs |-> <<>>]

List(specs) == [kind |-> "list", specs |-> specs]

\* the value of a variable that holds no result yet
Unset == [kind |-> "unset", specs |-> <<>>]

\* if(outLines.length <= 0)
NoOutput(outLines) == Len(outLines) <= 0

\* faulty variant: the threshold off by one
ErrorsOnStderrWrong(errLines) == Len(errLines) > 2

\* if(errLines.length > 1)
ErrorsOnStderr(errLines) == Len(errLines) > 1

\* faulty variant: the break left out
StopsCollectingNever(line) == FALSE

\* if(line.match(othersMarker)) break;
StopsCollecting(line) == IsOthersMarker(line)

\* faulty variant: a name already collected is dropped
PushUnlessPresent(failedSpecs, name) ==
  IF \E k \in 1 .. Len(failedSpecs) : failedSpecs[k] = name
  THEN failedSpecs
  ELSE Append(failedSpecs, name)

\* failedSpecs.push(failedSpecName)
Push(failedSpecs, name) == Append(failedSpecs, name)

RECURSIVE InnerLoop(_, _, _)
\* for(i++; i < outLines.length; i++) { ... }: entered with i already advanced,
\* gives the i it ends with and the failedSpecs collected so far
InnerLoop(outLines, i, failedSpecs) ==
  IF i > Len(outLines) THEN [i |-> i, specs |-> failedSpecs]
  ELSE LET line == Trim(outLines[i])
       IN  IF StopsCollecting(line) THEN [i |-> i, specs |-> failedSpecs]
           ELSE IF IsFailedSpec(line)
                THEN InnerLoop(outLines, i + 1,
                               Push(failedSpecs, FailedSpecName(line)))
                ELSE InnerLoop(outLines, i + 1, failedSpecs)

RECURSIVE OuterLoop(_, _, _)
\* for(var i = 0; i < outLines.length; i++) { ... }
OuterLoop(outLines, i, failedSpecs) ==
  IF i > Len(outLines) THEN failedSpecs
  ELSE LET line == Trim(outLines[i])
       IN  IF IsFailuresMarker(line)
           THEN LET r == InnerLoop(outLines, i + 1, failedSpecs)
                IN  OuterLoop(outLines, r.i + 1, r.specs)
           ELSE OuterLoop(outLines, i + 1, failedSpecs)

parseOutput(stdout, stderr) ==
  LET outLines == Split(Trim(stdout))
      errLines == Split(Trim(stderr))
  IN  IF NoOutput(outLines) THEN Null
      ELSE IF ErrorsOnStderr(errLines) THEN Null
      ELSE List(OuterLoop(outLines, 1, <<>>))

(***************************************************************************)
(* State.                                                                  *)
(***************************************************************************)
VARIABLES
  pc,             \* where the orchestrator's promise chain stands
  targets,        \* argv._.length > 0
  argvMaxRetries, \* argv['max-retries']
  argvTimeout,    \* argv.timeout
  hasPrerun,      \* filter && filter.prerun
  hasPostrun,     \* filter && filter.postrun
  binExists,      \* fs.existsSync(PROTRACTOR_BIN)
  maxRetries,     \* the module variable maxRetries
  nextRun,        \* runTests' nextRun
  retryFile,      \* RETRY_FILE on disk
  stdoutBuf,      \* runProtractor's stdout array
  stderrBuf,      \* runProtractor's stderr array
  killTimeout,    \* runProtractor's killTimeout
  killed,         \* child.kill() was called on the live subprocess
  failedSpecs,    \* the value runProtractor's promise is fulfilled with
  retry,          \* the value handed to the last handler of the chain
  err,            \* the error the chain was rejected with
  exitStatus,     \* the status the process ended with, -1 while it runs
  spawnCount,     \* the number of spawn() calls so far
  deferred,       \* runProtractor's deferred of the last spawn
  lastExit,       \* the exitCode the last 'exit' event came with
  timedOut,       \* the exit handler reported the timeout for the last spawn
  childRetrySpecs,\* what the spec filter inside the last subprocess read
  prerun,         \* the last call of filter.prerun and its promise
  postrun,        \* the last call of filter.postrun and its promise
  pLines,         \* SpecParse: the lines stdout is made of
  pStderr,        \* SpecParse: stderr
  pResult,        \* SpecParse: what parseOutput returned
  ppc,            \* SpecParse: "ready" before the call, "done" after
  fpc,            \* SpecFilter: "fresh", "installed", "called"
  fFile,          \* SpecFilter: RETRY_FILE as the subprocess finds it
  fIsRetryRun,    \* SpecFilter: browser.params.isRetryRun
  fOriginal,      \* SpecFilter: the specFilter installed before
  fRetrySpecs,    \* SpecFilter: installJasmineSpecFilter's retrySpecs
  fName,          \* SpecFilter: spec.getFullName() of the last call
  fResult         \* SpecFilter: what the last call returned and did

orchVars ==
  <<pc, targets, argvMaxRetries, argvTimeout, hasPrerun, hasPostrun, binExists,
    maxRetries, nextRun, retryFile, stdoutBuf, stderrBuf, killTimeout, killed,
    failedSpecs, retry, err, exitStatus, spawnCount, deferred, lastExit,
    timedOut, childRetrySpecs, prerun, postrun>>

\* the state runProtractor adds for one subprocess
supVars == <<deferred, lastExit, timedOut, childRetrySpecs>>

parseVars == <<pLines, pStderr, pResult, ppc>>

filterVars ==
  <<fpc, fFile, fIsRetryRun, fOriginal, fRetrySpecs, fName, fResult>>

vars == <<orchVars, parseVars, filterVars>>

configVars ==
  <<targets, argvMaxRetries, argvTimeout, hasPrerun, hasPostrun, binExists>>

(***************************************************************************)
(* The retry-state file.                                                   *)
(***************************************************************************)
NoFile == [exists |-> FALSE, content |-> <<>>]

\* fs.unlinkSync(RETRY_FILE) inside try/catch: a missing file is ignored
UnlinkSync(file) == NoFile

\* faulty variant: the data is appended to what the file holds
AppendFileSync(file, data) == [exists |-> TRUE, content |-> file.content \o data]

\* fs.writeFileSync(RETRY_FILE, data)
WriteFileSync(file, data) == [exists |-> TRUE, content |-> data]

\* a file an earlier, interrupted run left behind
StaleFile == [exists |-> TRUE, content |-> <<"o", "l", "d">>]

(***************************************************************************)
(* What the subprocess may write and how it may end.                       *)
(***************************************************************************)
ChunkOk == <<"o", "k", "\n">>

ChunkFailures ==
  <<"*", " ">> \o FailuresWord \o <<" ", "*", "\n", "1", ")", " ", "a", " ", "b", "\n">>

ChunkMore == <<"2", ")", " ", "c", "\n", "3", ")", " ", "a", " ", "b", "\n">>

OutChunks == {ChunkOk, ChunkFailures, ChunkMore}

\* the "one empty error line", and a real error of two lines
ErrChunks == {<<"\n">>, <<"E", "1", "\n", "E", "2", "\n">>}

\* the exitCode of the 'exit' event; -1 stands for null (ended by a signal)
ExitCodes == {0, 1, 2, -1}

RECURSIVE Concat(_)
\* Buffer.concat
Concat(chunks) ==
  IF chunks = <<>> THEN <<>> ELSE Head(chunks) \o Concat(Tail(chunks))

(***************************************************************************)
(* installJasmineSpecFilter: the spec filter, which runs inside the        *)
(* subprocess.                                                             *)
(***************************************************************************)
UpperCase ==
  <<"A", "B", "C", "D", "E", "F", "G", "H", "I", "J", "K", "L", "M",
    "N", "O", "P", "Q", "R", "S", "T", "U", "V", "W", "X", "Y", "Z">>

LowerCase ==
  <<"a", "b", "c", "d", "e", "f", "g", "h", "i", "j", "k", "l", "m",
    "n", "o", "p", "q", "r", "s", "t", "u", "v", "w", "x", "y", "z">>

\* String.prototype.toLowerCase
ToLowerCase(s) ==
  [k \in 1 .. Len(s) |->
     IF \E u \in 1 .. Len(UpperCase) : UpperCase[u] = s[k]
     THEN LowerCase[CHOOSE u \in 1 .. Len(UpperCase) : UpperCase[u] = s[k]]
     ELSE s[k]]

\* retrySpecs when readFileSync threw
Undefined == [defined |-> FALSE, specs |-> <<>>]

\* try { retrySpecs = fs.readFileSync(RETRY_FILE).toString().split('\n'); }
\* catch(e) { }
ReadRetrySpecs(file) ==
  IF file.exists THEN [defined |-> TRUE, specs |-> Split(file.content)]
  ELSE Undefined

\* jasmine.getEnv().specFilter when none was installed before
NoOriginal == [installed |-> FALSE, admits |-> {}]

\* faulty variant: both conditions are required
PassThroughBoth(isRetryRun, retrySpecs) == ~isRetryRun /\ ~retrySpecs.defined

\* if(!browser.params.isRetryRun || retrySpecs === undefined)
PassThrough(isRetryRun, retrySpecs) == ~isRetryRun \/ ~retrySpecs.defined

\* faulty variant: the names are compared as they are
NameMatchesExactly(retrySpec, fullName) == retrySpec = fullName

\* retrySpecs[i].toLowerCase() === spec.getFullName().toLowerCase()
NameMatches(retrySpec, fullName) == ToLowerCase(retrySpec) = ToLowerCase(fullName)

\* return originalFilter ? originalFilter(spec) : true;
\* decision: what is returned; origCalled: originalFilter was called
CallOriginal(original, fullName) ==
  IF original.installed
  THEN [decision |-> fullName \in original.admits, origCalled |-> TRUE]
  ELSE [decision |-> TRUE, origCalled |-> FALSE]

\* faulty variant: a listed spec is admitted without asking originalFilter
OnMatchAdmit(original, fullName) == [decision |-> TRUE, origCalled |-> FALSE]

\* the return inside the loop, for a spec the retry file lists
OnMatch(original, fullName) == CallOriginal(original, fullName)

RECURSIVE FilterLoop(_, _, _, _)
\* for(var i = 0; i < retrySpecs.length; i++) { ... } return false;
FilterLoop(specs, i, original, fullName) ==
  IF i > Len(specs) THEN [decision |-> FALSE, origCalled |-> FALSE]
  ELSE IF NameMatches(specs[i], fullName) THEN OnMatch(original, fullName)
  ELSE FilterLoop(specs, i + 1, original, fullName)

\* the function installed as jasmine.getEnv().specFilter
specFilter(isRetryRun, retrySpecs, original, fullName) ==
  IF PassThrough(isRetryRun, retrySpecs) THEN CallOriginal(original, fullName)
  ELSE FilterLoop(retrySpecs.specs, 1, original, fullName)

\* protractorArgs ends with --params.isRetryRun true, on every invocation
IsRetryRunParam == TRUE

(***************************************************************************)
(* runTests                                                                *)
(***************************************************************************)
\* process.exit(status)
ProcessExit(status) ==
  /\ pc' = "exit"
  /\ exitStatus' = status

\* faulty variant: the counter is left as it is
DecrementLost(m) == m

\* maxRetries--
Decrement(m) == m - 1

\* if(maxRetries < 0)
BudgetExceeded(m) == m < 0

\* no call of a hook yet
NoCall == [arg |-> 0, specs |-> Unset, state |-> "none"]

\* faulty variant: the chain goes on without the promise
PrerunPcNoWait(res) == "f1"

\* prerunPromise = res, or Q.when(res): where the chain stands after the call
PrerunPc(res) == IF res = "promise" THEN "prerunPending" ELSE "f1"

\* The body of runTests.  inChain: the call is the one made by the last
\* handler of the promise chain (a retry), not the caller's first call.
RunTests(inChain) ==
  IF ~targets
  THEN /\ ProcessExit(4)
       /\ UNCHANGED <<maxRetries, nextRun, retryFile, err, prerun>>
  ELSE LET m == Decrement(maxRetries)
       IN  /\ maxRetries' = m
           /\ IF BudgetExceeded(m)
              THEN /\ retryFile' = UnlinkSync(retryFile)
                   /\ ProcessExit(2)
                   /\ UNCHANGED <<nextRun, err, prerun>>
              ELSE /\ nextRun' = argvMaxRetries - m
                   /\ UNCHANGED retryFile
                   /\ IF hasPrerun
                      THEN \E res \in {"value", "promise", "throws"} :
                             \/ /\ res = "value"
                                /\ pc' = PrerunPc(res)
                                /\ prerun' = [arg |-> nextRun', specs |-> Unset,
                                              state |-> "fulfilled"]
                                /\ UNCHANGED <<err, exitStatus>>
                             \/ /\ res = "promise"
                                /\ pc' = PrerunPc(res)
                                /\ prerun' = [arg |-> nextRun', specs |-> Unset,
                                              state |-> "pending"]
                                /\ UNCHANGED <<err, exitStatus>>
                             \/ /\ res = "throws"
                                /\ err' = "prerun"
                                /\ prerun' = [arg |-> nextRun', specs |-> Unset,
                                              state |-> "threw"]
                                \* not inside a handler: the exception leaves
                                \* runTests and ends the process as uncaught;
                                \* inside the last handler: it rejects the
                                \* promise of that then(), which nothing
                                \* handles, and the process ends when idle
                                /\ IF inChain
                                   THEN pc' = "drained" /\ exitStatus' = 0
                                   ELSE pc' = "uncaught" /\ exitStatus' = 1
                      ELSE /\ pc' = "f1"
                           /\ UNCHANGED <<err, exitStatus, prerun>>

\* the caller's call of runWithRetry
Start ==
  /\ pc = "start"
  /\ RunTests(FALSE)
  /\ UNCHANGED <<configVars, stdoutBuf, stderrBuf, killTimeout, killed,
                 failedSpecs, retry, spawnCount, supVars, postrun, parseVars,
                 filterVars>>

\* the promise filter.prerun returned settles
PrerunSettle ==
  /\ pc = "prerunPending"
  /\ prerun.state = "pending"
  /\ \/ /\ pc' = "f1"
        /\ prerun' = [prerun EXCEPT !.state = "fulfilled"]
        /\ UNCHANGED err
     \/ /\ pc' = "errHandler"
        /\ prerun' = [prerun EXCEPT !.state = "rejected"]
        /\ err' = "prerun"
  /\ UNCHANGED <<configVars, maxRetries, nextRun, retryFile, stdoutBuf, stderrBuf,
                 killTimeout, killed, failedSpecs, retry, exitStatus, spawnCount,
                 supVars, postrun, parseVars, filterVars>>

(***************************************************************************)
(* runProtractor                                                           *)
(***************************************************************************)
\* the most subprocesses the model follows: more than any budget allows
SpawnCap == MaxRetriesBound + 3

\* var deferred = Q.defer()
Pending == [state |-> "pending", value |-> Unset]

\* no 'exit' event yet
NoExit == [seen |-> FALSE, code |-> 0]

\* faulty variant: a timer is armed whatever the timeout is
ArmTimerAlways(timeout) == "armed"

\* if(argv.timeout > 0) { killTimeout = setTimeout(...) }
ArmTimer(timeout) == IF timeout > 0 THEN "armed" ELSE "undefined"

\* prerunPromise.then(function(prerun) { return runProtractor(); })
RunProtractor ==
  /\ pc = "f1"
  /\ IF ~binExists
     THEN /\ ProcessExit(1)
          /\ UNCHANGED <<stdoutBuf, stderrBuf, killTimeout, killed, spawnCount,
                         supVars>>
     ELSE /\ spawnCount < SpawnCap
          /\ pc' = "running"
          /\ spawnCount' = spawnCount + 1
          /\ stdoutBuf' = <<>>
          /\ stderrBuf' = <<>>
          /\ killTimeout' = ArmTimer(argvTimeout)
          /\ killed' = FALSE
          /\ deferred' = Pending
          /\ lastExit' = NoExit
          /\ timedOut' = FALSE
          \* the subprocess installs its spec filter, which reads the file
          /\ childRetrySpecs' = ReadRetrySpecs(retryFile)
          /\ UNCHANGED exitStatus
  /\ UNCHANGED <<configVars, maxRetries, nextRun, retryFile, failedSpecs, retry,
                 err, prerun, postrun, parseVars, filterVars>>

\* child.stdout.on('data', ...)
OnStdoutData ==
  /\ pc = "running"
  /\ Len(stdoutBuf) + Len(stderrBuf) < MaxChunks
  /\ \E data \in OutChunks : stdoutBuf' = Append(stdoutBuf, data)
  /\ UNCHANGED <<pc, configVars, maxRetries, nextRun, retryFile, stderrBuf,
                 killTimeout, killed, failedSpecs, retry, err, exitStatus,
                 spawnCount, supVars, prerun, postrun, parseVars, filterVars>>

\* child.stderr.on('data', ...)
OnStderrData ==
  /\ pc = "running"
  /\ Len(stdoutBuf) + Len(stderrBuf) < MaxChunks
  /\ \E data \in ErrChunks : stderrBuf' = Append(stderrBuf, data)
  /\ UNCHANGED <<pc, configVars, maxRetries, nextRun, retryFile, stdoutBuf,
                 killTimeout, killed, failedSpecs, retry, err, exitStatus,
                 spawnCount, supVars, prerun, postrun, parseVars, filterVars>>

\* the setTimeout callback
OnKillTimeout ==
  /\ pc = "running"
  /\ killTimeout = "armed"
  /\ killTimeout' = "null"
  /\ killed' = TRUE
  /\ UNCHANGED <<pc, configVars, maxRetries, nextRun, retryFile, stdoutBuf,
                 stderrBuf, failedSpecs, retry, err, exitStatus, spawnCount,
                 supVars, prerun, postrun, parseVars, filterVars>>

\* if(exitCode !== 0 && exitCode !== 1)
Inconclusive(exitCode) == exitCode # 0 /\ exitCode # 1

\* faulty variant: a later fulfill replaces the value
FulfillAgain(d, value) == [state |-> "fulfilled", value |-> value]

\* deferred.fulfill(value): nothing happens once the deferred is resolved
Fulfill(d, value) ==
  IF d.state = "pending" THEN [state |-> "fulfilled", value |-> value] ELSE d

\* The deferred after the 'exit' handler: on the timeout path fulfill(null) and
\* return; otherwise fulfill(null) for an exit code other than 0 and 1, and
\* then, in every case, fulfill(parseOutput(...)).
Settle(d, kt, exitCode, stdout, stderr) ==
  IF kt = "null" THEN Fulfill(d, Null)
  ELSE LET d1 == IF Inconclusive(exitCode) THEN Fulfill(d, Null) ELSE d
       IN  Fulfill(d1, parseOutput(Concat(stdout), Concat(stderr)))

\* What the deferred ends up fulfilled with in the 'exit' handler: only the
\* first fulfill of a deferred counts.
Outcome(kt, exitCode, stdout, stderr) ==
  Settle(Pending, kt, exitCode, stdout, stderr).value

\* child.on('exit', ...)
OnExit ==
  /\ pc = "running"
  /\ \E exitCode \in ExitCodes :
       /\ failedSpecs' = Outcome(killTimeout, exitCode, stdoutBuf, stderrBuf)
       /\ deferred' = Settle(deferred, killTimeout, exitCode, stdoutBuf, stderrBuf)
       /\ lastExit' = [seen |-> TRUE, code |-> exitCode]
  /\ killTimeout' = IF killTimeout = "armed" THEN "cleared" ELSE killTimeout
  /\ timedOut' = (killTimeout = "null")
  /\ pc' = "f2"
  /\ stdoutBuf' = <<>>
  /\ stderrBuf' = <<>>
  /\ UNCHANGED <<configVars, maxRetries, nextRun, retryFile, killed, retry, err,
                 exitStatus, spawnCount, childRetrySpecs, prerun, postrun,
                 parseVars, filterVars>>

(***************************************************************************)
(* The rest of runTests' promise chain.                                    *)
(***************************************************************************)
\* .then(function(failedSpecs) { ... }) up to the call of filter.postrun
AfterRun ==
  /\ pc = "f2"
  /\ IF hasPostrun
     THEN \E res \in {"value", "promise", "throws"} :
            \/ /\ res = "value"
               /\ pc' = "f2b"
               /\ postrun' = [arg |-> nextRun, specs |-> failedSpecs,
                              state |-> "fulfilled"]
               /\ UNCHANGED err
            \/ /\ res = "promise"
               /\ pc' = "postrunPending"
               /\ postrun' = [arg |-> nextRun, specs |-> failedSpecs,
                              state |-> "pending"]
               /\ UNCHANGED err
            \/ /\ res = "throws"
               /\ pc' = "errHandler"
               /\ postrun' = [arg |-> nextRun, specs |-> failedSpecs,
                              state |-> "threw"]
               /\ err' = "postrun"
     ELSE pc' = "f2b" /\ UNCHANGED <<err, postrun>>
  /\ UNCHANGED <<configVars, maxRetries, nextRun, retryFile, stdoutBuf, stderrBuf,
                 killTimeout, killed, failedSpecs, retry, exitStatus, spawnCount,
                 supVars, prerun, parseVars, filterVars>>

\* the promise filter.postrun returned settles
PostrunSettle ==
  /\ pc = "postrunPending"
  /\ postrun.state = "pending"
  /\ \/ /\ pc' = "f2b"
        /\ postrun' = [postrun EXCEPT !.state = "fulfilled"]
        /\ UNCHANGED err
     \/ /\ pc' = "errHandler"
        /\ postrun' = [postrun EXCEPT !.state = "rejected"]
        /\ err' = "postrun"
  /\ UNCHANGED <<configVars, maxRetries, nextRun, retryFile, stdoutBuf, stderrBuf,
                 killTimeout, killed, failedSpecs, retry, exitStatus, spawnCount,
                 supVars, prerun, parseVars, filterVars>>

\* faulty variant: a run without failures asks for a retry
RetryAfterSuccessWrong == TRUE

\* return false;
RetryAfterSuccess == FALSE

\* postrunPromise.then(function(postrun) { ... })
Decide ==
  /\ pc = "f2b"
  /\ IF failedSpecs.kind = "null"
     THEN \* failedSpecs.length of null throws a TypeError
          /\ pc' = "errHandler"
          /\ err' = "TypeError"
          /\ UNCHANGED <<retryFile, retry>>
     ELSE IF Len(failedSpecs.specs) = 0
     THEN /\ retryFile' = UnlinkSync(retryFile)
          /\ retry' = RetryAfterSuccess
          /\ pc' = "f3"
          /\ UNCHANGED err
     ELSE /\ retryFile' = WriteFileSync(retryFile, Join(failedSpecs.specs))
          /\ pc' = "delay"
          /\ UNCHANGED <<retry, err>>
  /\ UNCHANGED <<configVars, maxRetries, nextRun, stdoutBuf, stderrBuf,
                 killTimeout, killed, failedSpecs, exitStatus, spawnCount,
                 supVars, prerun, postrun, parseVars, filterVars>>

\* Q.delay(argv['retry-pause']).then(function() { return true; })
DelayDone ==
  /\ pc = "delay"
  /\ retry' = TRUE
  /\ pc' = "f3"
  /\ UNCHANGED <<configVars, maxRetries, nextRun, retryFile, stdoutBuf, stderrBuf,
                 killTimeout, killed, failedSpecs, err, exitStatus, spawnCount,
                 supVars, prerun, postrun, parseVars, filterVars>>

\* .then(function(retry) { if(retry) { return runTests(); } }, ...)
Retry ==
  /\ pc = "f3"
  /\ IF retry
     THEN RunTests(TRUE)
     ELSE \* nothing is left to run: the process ends on its own
          /\ pc' = "drained"
          /\ exitStatus' = 0
          /\ UNCHANGED <<maxRetries, nextRun, retryFile, err, prerun>>
  /\ UNCHANGED <<configVars, stdoutBuf, stderrBuf, killTimeout, killed,
                 failedSpecs, retry, spawnCount, supVars, postrun, parseVars,
                 filterVars>>

\* .then(..., function(err) { ... })
OnError ==
  /\ pc = "errHandler"
  /\ retryFile' = UnlinkSync(retryFile)
  /\ ProcessExit(3)
  /\ UNCHANGED <<configVars, maxRetries, nextRun, stdoutBuf, stderrBuf,
                 killTimeout, killed, failedSpecs, retry, err, spawnCount,
                 supVars, prerun, postrun, parseVars, filterVars>>

(***************************************************************************)
(* The orchestrator's specification.                                       *)
(***************************************************************************)
ParseIdle ==
  /\ pLines = <<>>
  /\ pStderr = <<>>
  /\ pResult = Unset
  /\ ppc = "idle"

FilterIdle ==
  /\ fpc = "idle"
  /\ fFile = NoFile
  /\ fIsRetryRun = FALSE
  /\ fOriginal = NoOriginal
  /\ fRetrySpecs = Undefined
  /\ fName = <<>>
  /\ fResult = [decision |-> TRUE, origCalled |-> FALSE]

Init ==
  /\ pc = "start"
  /\ targets \in BOOLEAN
  /\ argvMaxRetries \in 0 .. MaxRetriesBound
  /\ argvTimeout \in {0, 30}
  /\ hasPrerun \in BOOLEAN
  /\ hasPostrun \in BOOLEAN
  /\ binExists \in BOOLEAN
  /\ maxRetries = argvMaxRetries
  /\ nextRun = 0
  /\ retryFile \in {NoFile, StaleFile}
  /\ stdoutBuf = <<>>
  /\ stderrBuf = <<>>
  /\ killTimeout = "undefined"
  /\ killed = FALSE
  /\ failedSpecs = Unset
  /\ retry = FALSE
  /\ err = "none"
  /\ exitStatus = -1
  /\ spawnCount = 0
  /\ deferred = Pending
  /\ lastExit = NoExit
  /\ timedOut = FALSE
  /\ childRetrySpecs = Undefined
  /\ prerun = NoCall
  /\ postrun = NoCall
  /\ ParseIdle
  /\ FilterIdle

Next ==
  \/ Start
  \/ PrerunSettle
  \/ RunProtractor
  \/ OnStdoutData
  \/ OnStderrData
  \/ OnKillTimeout
  \/ OnExit
  \/ AfterRun
  \/ PostrunSettle
  \/ Decide
  \/ DelayDone
  \/ Retry
  \/ OnError

Spec == Init /\ [][Next]_vars

\* The event loop runs every handler that is ready; every subprocess exits in
\* the end and every hook's promise settles.
Fairness ==
  /\ WF_vars(Start)
  /\ WF_vars(PrerunSettle)
  /\ WF_vars(RunProtractor)
  /\ WF_vars(OnExit)
  /\ WF_vars(AfterRun)
  /\ WF_vars(PostrunSettle)
  /\ WF_vars(Decide)
  /\ WF_vars(DelayDone)
  /\ WF_vars(Retry)
  /\ WF_vars(OnError)

SpecLive == Spec /\ Fairness

(***************************************************************************)
(* parseOutput on its own: every stdout of up to MaxLines lines of         *)
(* LinePool, with every stderr of ErrPool.                                 *)
(***************************************************************************)
LineFailures == <<"*", " ">> \o FailuresWord \o <<" ", "*">>

LineSummary == <<"*", " ", "S", "u", "m", "_", "1", " ", "*">>

LineSpecAB == <<"1", ")", " ", "a", " ", "b">>

\* a numbered line with blanks around it and two after the parenthesis
LineSpecPadded == <<" ", "1", "2", ")", " ", " ", "c", " ">>

\* text of a failure's message or stack
LineDiag == <<"a", "t", " ", "x">>

LineEmpty == <<>>

\* a number and a parenthesis with no blank after it
LineNoBlank == <<"3", ")", "x">>

\* a marker left open
LineNoStar == <<"*", " ">> \o FailuresWord

LinePool ==
  {LineFailures, LineSummary, LineSpecAB, LineSpecPadded, LineDiag, LineEmpty,
   LineNoBlank, LineNoStar}

ErrPool ==
  { <<>>,
    <<"\n">>,
    <<"E", "1">>,
    <<"E", "1", "\n", "E", "2">>,
    <<"\n", "E", "1", "\n">>,
    <<"E", "1", "\n", "\n", "E", "2", "\n">> }

\* all sequences over S of length at most n
SeqsUpTo(S, n) == UNION {[1 .. k -> S] : k \in 0 .. n}

OrchIdle ==
  /\ pc = "idle"
  /\ targets = FALSE
  /\ argvMaxRetries = 0
  /\ argvTimeout = 0
  /\ hasPrerun = FALSE
  /\ hasPostrun = FALSE
  /\ binExists = FALSE
  /\ maxRetries = 0
  /\ nextRun = 0
  /\ retryFile = NoFile
  /\ stdoutBuf = <<>>
  /\ stderrBuf = <<>>
  /\ killTimeout = "undefined"
  /\ killed = FALSE
  /\ failedSpecs = Unset
  /\ retry = FALSE
  /\ err = "none"
  /\ exitStatus = -1
  /\ spawnCount = 0
  /\ deferred = Pending
  /\ lastExit = NoExit
  /\ timedOut = FALSE
  /\ childRetrySpecs = Undefined
  /\ prerun = NoCall
  /\ postrun = NoCall

InitParse ==
  /\ OrchIdle
  /\ FilterIdle
  /\ pLines \in SeqsUpTo(LinePool, MaxLines)
  /\ pStderr \in ErrPool
  /\ pResult = Unset
  /\ ppc = "ready"

\* the call parseOutput(stdout, stderr), stdout being the lines joined
Parse ==
  /\ ppc = "ready"
  /\ pResult' = parseOutput(Join(pLines), pStderr)
  /\ ppc' = "done"
  /\ UNCHANGED <<orchVars, filterVars, pLines, pStderr>>

NextParse == Parse

SpecParse == InitParse /\ [][NextParse]_vars

(***************************************************************************)
(* The specification of the spec filter alone: installJasmineSpecFilter    *)
(* runs in a subprocess, with a retry file, a flag and possibly a filter   *)
(* installed before; jasmine then calls the installed filter with specs.   *)
(***************************************************************************)
NameAB == <<"a", " ", "b">>

NameUpperAB == <<"A", " ", "B">>

NameC == <<"c">>

NameZ == <<"Z">>

\* the full names of the specs jasmine asks about
TestNames == {NameAB, NameUpperAB, NameC, NameZ}

\* retry files: none, one written for two failed specs, one for one spec in
\* other letter case, an empty one, one left by an earlier run
FilterFiles ==
  { NoFile,
    WriteFileSync(NoFile, Join(<<NameUpperAB, NameC>>)),
    WriteFileSync(NoFile, Join(<<NameZ>>)),
    WriteFileSync(NoFile, <<>>),
    StaleFile }

\* jasmine.getEnv().specFilter before the installation
OriginalFilters ==
  {NoOriginal} \cup {[installed |-> TRUE, admits |-> A] : A \in SUBSET TestNames}

InitFilter ==
  /\ OrchIdle
  /\ ParseIdle
  /\ fpc = "fresh"
  /\ fFile \in FilterFiles
  /\ fIsRetryRun \in BOOLEAN
  /\ fOriginal \in OriginalFilters
  /\ fRetrySpecs = Undefined
  /\ fName = <<>>
  /\ fResult = [decision |-> TRUE, origCalled |-> FALSE]

\* installJasmineSpecFilter()
Install ==
  /\ fpc = "fresh"
  /\ fRetrySpecs' = ReadRetrySpecs(fFile)
  /\ fpc' = "installed"
  /\ UNCHANGED <<orchVars, parseVars, fFile, fIsRetryRun, fOriginal, fName,
                 fResult>>

\* jasmine.getEnv().specFilter(spec)
CallFilter ==
  /\ fpc \in {"installed", "called"}
  /\ \E fullName \in TestNames :
       /\ fName' = fullName
       /\ fResult' = specFilter(fIsRetryRun, fRetrySpecs, fOriginal, fullName)
  /\ fpc' = "called"
  /\ UNCHANGED <<orchVars, parseVars, fFile, fIsRetryRun, fOriginal,
                 fRetrySpecs>>

NextFilter ==
  \/ Install
  \/ CallFilter

SpecFilter == InitFilter /\ [][NextFilter]_vars

(***************************************************************************)
(* Properties of the orchestrator, checked under Spec.                     *)
(***************************************************************************)
\* the process has ended
Terminated == pc \in {"exit", "drained", "uncaught"}

\* the errors a filter hook raised
HookErrors == {"prerun", "postrun"}

\* C1: an attempt whose result is the parse-failed marker (null), with no hook
\* error, goes on to a retry: it does not put the chain on its error path and
\* never ends the process with the unrecoverable-error status 3.
C1_ParseFailureRetries ==
  (failedSpecs.kind = "null" /\ err \notin HookErrors)
    => (pc # "errHandler" /\ exitStatus # 3)

\* C2: with --max-retries 0, test targets given, the binary present and no
\* error raised, the process ends after exactly one subprocess invocation.
C2_ZeroRetriesOneAttempt ==
  (Terminated /\ argvMaxRetries = 0 /\ targets /\ binExists /\ err = "none")
    => spawnCount = 1

\* C3: one orchestrator run never makes more than max-retries + 1 subprocess
\* invocations.
C3_SpawnBound == spawnCount <= argvMaxRetries + 1

\* the budget ran out after several invocations
C3_Witness == pc = "exit" /\ exitStatus = 2 /\ spawnCount >= 2

\* C4: when the process has ended by SUCCESS, EXHAUSTED or FATAL (binary not
\* found, or an error raised during an attempt), the retry-state file is absent.
C4_TerminalClearsFile ==
  (\/ pc = "exit" /\ exitStatus \in {1, 2, 3}
   \/ pc = "drained" /\ err = "none")
    => ~retryFile.exists

\* a retry was decided and the results of the next attempt are not in yet
AfterRetry ==
  \/ pc = "delay"
  \/ pc = "f3" /\ retry
  \/ pc \in {"prerunPending", "f1", "running"} /\ nextRun > 1

\* C5: from a RETRY transition until the next subprocess ends, the retry-state
\* file holds exactly the failed-test names of the last attempt, one per line,
\* in order, duplicates kept, and nothing else.
C5_RetryFileIsLastFailures ==
  AfterRetry =>
    /\ retryFile.exists
    /\ failedSpecs.kind = "list"
    /\ failedSpecs.specs # <<>>
    /\ Split(retryFile.content) = failedSpecs.specs

\* the third subprocess runs on the three names (one twice) of the second
\* attempt, written over the file of the first
C5_Witness ==
  /\ pc = "running"
  /\ nextRun = 3
  /\ failedSpecs.specs = << <<"a", " ", "b">>, <<"c">>, <<"a", " ", "b">> >>
  /\ retryFile.content =
       <<"a", " ", "b", "\n", "c", "\n", "a", " ", "b">>

\* C6: once a filter hook has raised an error (thrown by the call or a rejected
\* promise), the chain is on its error path, no subprocess runs any more, and
\* the process ends with status 3 and without a retry-state file.
C6_HookErrorIsFatal ==
  err \in HookErrors =>
    /\ pc \in {"errHandler", "exit"}
    /\ pc = "exit" => (exitStatus = 3 /\ ~retryFile.exists)

(***************************************************************************)
(* Properties of parseOutput, checked under SpecParse.                     *)
(***************************************************************************)
\* the stdout the lines make
pStdout == Join(pLines)

\* the number of "\n" in s
Newlines(s) == Cardinality({k \in 1 .. Len(s) : s[k] = "\n"})

\* C7: parseOutput of an empty stdout returns the parse-failed marker,
\* whatever stderr is.
C7_EmptyStdoutFails ==
  (ppc = "done" /\ pStdout = <<>>) => pResult = Null

\* C8: a stderr of more than one line (after trimming) makes parseOutput return
\* the parse-failed marker whatever stdout is; a stderr of at most one line
\* changes nothing: the result is the one an empty stderr gives.
C8_StderrLines ==
  ppc = "done" =>
    IF Newlines(Trim(pStderr)) >= 1
    THEN pResult = Null
    ELSE pResult = parseOutput(pStdout, <<>>)

\* two lines on stderr and a stdout without a failures block
C8_Witness ==
  /\ ppc = "done"
  /\ pStderr = <<"E", "1", "\n", "E", "2">>
  /\ pLines = <<LineDiag>>
  /\ pResult = Null

\* the first line of lines that is a failures-block start, 0 when none is
FirstFailures(lines) ==
  LET S == {k \in 1 .. Len(lines) : IsFailuresMarker(Trim(lines[k]))}
  IN  IF S = {} THEN 0 ELSE CHOOSE k \in S : \A j \in S : k <= j

\* the first section-marker line after line f, Len(lines) + 1 when none is
BlockEnd(lines, f) ==
  LET S == {k \in f + 1 .. Len(lines) : IsOthersMarker(Trim(lines[k]))}
  IN  IF S = {} THEN Len(lines) + 1 ELSE CHOOSE k \in S : \A j \in S : k <= j

\* lines hold one failures block: a start line, and no other start line after
\* the line that ends the block
OneBlock(lines) ==
  LET f == FirstFailures(lines)
  IN  /\ f > 0
      /\ \A k \in BlockEnd(lines, f) + 1 .. Len(lines) :
           ~IsFailuresMarker(Trim(lines[k]))

RECURSIVE NamesOf(_)
\* the names of the numbered lines among lines, in order
NamesOf(lines) ==
  IF lines = <<>> THEN <<>>
  ELSE LET line == Trim(Head(lines))
       IN  (IF IsFailedSpec(line) THEN <<FailedSpecName(line)>> ELSE <<>>)
             \o NamesOf(Tail(lines))

\* the names in the block of lines
BlockNames(lines) ==
  LET f == FirstFailures(lines)
  IN  NamesOf(SubSeq(lines, f + 1, BlockEnd(lines, f) - 1))

\* C9: for a stdout with a failures block and a stderr of at most one line,
\* parseOutput returns exactly the names of the block's numbered lines, in
\* order, duplicates kept, whatever other lines stand in or around the block.
C9_BlockNames ==
  (ppc = "done" /\ OneBlock(pLines) /\ Newlines(Trim(pStderr)) = 0)
    => pResult = List(BlockNames(pLines))

\* a block of two numbered lines, one of them padded
C9_Witness ==
  /\ ppc = "done"
  /\ pLines = <<LineFailures, LineSpecPadded, LineSpecAB>>
  /\ pStderr = <<"\n">>
  /\ pResult = List(<< <<"c">>, <<"a", " ", "b">> >>)

RECURSIVE Scanner(_, _, _)
\* The line scanner the parser is specified as: SCANNING until a
\* failures-block start, then COLLECTING numbered lines until a section marker.
Scanner(lines, state, names) ==
  IF lines = <<>> THEN names
  ELSE LET line == Trim(Head(lines))
       IN  IF state = "SCANNING"
           THEN IF IsFailuresMarker(line)
                THEN Scanner(Tail(lines), "COLLECTING", names)
                ELSE Scanner(Tail(lines), "SCANNING", names)
           ELSE IF IsOthersMarker(line)
                THEN Scanner(Tail(lines), "SCANNING", names)
                ELSE IF IsFailedSpec(line)
                THEN Scanner(Tail(lines), "COLLECTING",
                             Append(names, FailedSpecName(line)))
                ELSE Scanner(Tail(lines), "COLLECTING", names)

\* C10: when parseOutput returns a list, it is the list the SCANNING/COLLECTING
\* scanner gives on the lines of stdout: numbered lines count only inside a
\* block, and the list is empty when stdout has no failures-block start.
C10_ScannerEquivalence ==
  (ppc = "done" /\ pResult.kind = "list") =>
    /\ pResult.specs = Scanner(pLines, "SCANNING", <<>>)
    /\ FirstFailures(pLines) = 0 => pResult.specs = <<>>

\* a numbered line after the marker that closed an empty block
C10_Witness ==
  /\ ppc = "done"
  /\ pLines = <<LineFailures, LineSummary, LineSpecAB>>
  /\ pStderr = <<>>
  /\ pResult = List(<<>>)

(***************************************************************************)
(* Properties of the spec filter, checked under SpecFilter.                *)
(***************************************************************************)
\* what the filter installed before decides (everything passes without one)
PreviousDecision ==
  IF fOriginal.installed THEN fName \in fOriginal.admits ELSE TRUE

\* C11: when the invocation is not flagged as a retry run, or no retry file
\* could be read, the installed filter decides every spec exactly as the
\* filter installed before does (admitting all when there is none), whatever
\* the retry file holds.
C11_PassThrough ==
  (fpc = "called" /\ (~fIsRetryRun \/ ~fFile.exists))
     => fResult.decision = PreviousDecision

\* a retry file that lists other specs, an invocation without the flag, no
\* earlier filter: the spec is admitted
C11_Witness ==
  /\ fpc = "called"
  /\ ~fIsRetryRun
  /\ fFile = WriteFileSync(NoFile, Join(<<NameZ>>))
  /\ fOriginal = NoOriginal
  /\ fName = NameC
  /\ fResult.decision

\* equality of two names ignoring letter case, letter by letter
SameLetter(c, d) ==
  \/ c = d
  \/ \E u \in 1 .. Len(UpperCase) :
       {c, d} = {UpperCase[u], LowerCase[u]}

EqualIgnoringCase(s, t) ==
  /\ Len(s) = Len(t)
  /\ \A k \in 1 .. Len(s) : SameLetter(s[k], t[k])

\* the names the retry file holds, one per line
RetryStateNames == {Split(fFile.content)[k] : k \in 1 .. Len(Split(fFile.content))}

ListedInRetryState == \E n \in RetryStateNames : EqualIgnoringCase(n, fName)

\* C12: in a retry-flagged invocation with a retry file and no earlier filter,
\* a spec is admitted if and only if its full name equals, ignoring letter
\* case, one of the names in the retry file.
C12_AdmitsListedOnly ==
  (fpc = "called" /\ fIsRetryRun /\ fFile.exists /\ ~fOriginal.installed)
     => (fResult.decision <=> ListedInRetryState)

\* "a b" is admitted against a file that lists "A B"
C12_Witness ==
  /\ fpc = "called"
  /\ fIsRetryRun
  /\ ~fOriginal.installed
  /\ fFile = WriteFileSync(NoFile, Join(<<NameUpperAB, NameC>>))
  /\ fName = NameAB
  /\ fResult.decision

\* C13: in a retry-flagged invocation with a retry file, a spec the retry file
\* does not list is suppressed without the earlier filter being called, and
\* for a spec the retry file lists the decision is the earlier filter's.
C13_Chains ==
  (fpc = "called" /\ fIsRetryRun /\ fFile.exists /\ fOriginal.installed)
     => IF ListedInRetryState
        THEN fResult.origCalled /\ fResult.decision = (fName \in fOriginal.admits)
        ELSE ~fResult.origCalled /\ ~fResult.decision

\* a listed spec that the earlier filter rejects is not admitted
C13_Witness ==
  /\ fpc = "called"
  /\ fIsRetryRun
  /\ fFile.exists
  /\ fOriginal.installed
  /\ ListedInRetryState
  /\ fName \notin fOriginal.admits
  /\ fResult.origCalled
  /\ ~fResult.decision

(***************************************************************************)
(* Further properties of the orchestrator.                                 *)
(***************************************************************************)
\* how a terminated run ended, read from what happened and not from the status
Category ==
  IF ~targets THEN "no targets"
  ELSE IF err # "none" THEN "error"
  ELSE IF BudgetExceeded(maxRetries) THEN "exhausted"
  ELSE IF pc = "exit" THEN "no binary"
  ELSE "success"

\* the status each category is documented to end with
StatusOf(category) ==
  CASE category = "success" -> 0
    [] category = "no binary" -> 1
    [] category = "exhausted" -> 2
    [] category = "error" -> 3
    [] category = "no targets" -> 4

\* C14: the exit status identifies how the run ended: a missing binary,
\* exhausted retries, an error during orchestration and missing targets each
\* end the process with their own status, none of them the status of success
\* or of another category.
C14_StatusIdentifiesCategory ==
  Terminated => exitStatus = StatusOf(Category)

\* the run has decided that it succeeded
SuccessDecided ==
  \/ pc = "f3" /\ ~retry
  \/ pc = "drained" /\ err = "none"

\* C15: when the orchestrator handles an attempt's empty list of failed specs
\* it clears the retry file and stops: afterwards no prerun hook is called, no
\* subprocess is spawned, the retry file is not written, and the process does
\* not end with a failure status.
C15_SuccessStops ==
  [][ /\ (pc = "f2b" /\ failedSpecs = List(<<>>))
          => /\ SuccessDecided'
             /\ ~retryFile'.exists
             /\ spawnCount' = spawnCount
             /\ prerun' = prerun
      /\ SuccessDecided
          => /\ SuccessDecided'
             /\ spawnCount' = spawnCount
             /\ prerun' = prerun
             /\ retryFile' = retryFile
             /\ exitStatus' \in {-1, 0} ]_vars

\* max-retries 3, a first attempt with failures, a second with none: the run
\* ended after two subprocesses, with status 0 and no retry file
C15_Witness ==
  /\ pc = "drained"
  /\ argvMaxRetries = 3
  /\ nextRun = 2
  /\ spawnCount = 2
  /\ failedSpecs = List(<<>>)
  /\ exitStatus = 0
  /\ ~retryFile.exists

\* the step in which the subprocess's 'exit' event is handled
ExitStep == pc = "running" /\ pc' = "f2"

\* C16: for a subprocess that exits with a code other than 0 and 1, or that
\* the timeout killed, the outcome runProtractor delivers is null, whatever
\* the captured output parses to; the outcome of an invocation is settled
\* once, by the 'exit' event, and not changed afterwards.
C16_InconclusiveIsNull ==
  [][ /\ ExitStep
          => /\ deferred.state = "pending"
             /\ deferred'.state = "fulfilled"
             /\ failedSpecs' = deferred'.value
             /\ (Inconclusive(lastExit'.code) \/ killed)
                   => deferred'.value = Null
      /\ (deferred.state = "fulfilled" /\ deferred' # deferred)
          => /\ pc = "f1"
             /\ pc' = "running"
             /\ deferred' = Pending
      /\ (deferred.state = "pending" /\ deferred' # deferred)
          => ExitStep ]_vars

\* the first subprocess exited with code 2 without being killed, and the
\* outcome is null
C16_Witness ==
  /\ pc = "f2"
  /\ lastExit = [seen |-> TRUE, code |-> 2]
  /\ ~killed
  /\ deferred = [state |-> "fulfilled", value |-> Null]
  /\ failedSpecs = Null
  /\ nextRun = 1

\* C17: with a timeout, if the timer fires before the subprocess exits the
\* subprocess is killed and the outcome is that of a timed-out run whatever
\* the exit code; if the exit comes first the timer is cancelled, no kill is
\* issued, and the outcome follows from exit code and output.  Without a
\* timeout no timer is armed and no kill is issued.
C17_TimerAndExit ==
  [][ /\ argvTimeout = 0 => (killTimeout' = "undefined" /\ ~killed')
      /\ (~killed /\ killed')
          => /\ argvTimeout > 0
             /\ pc = "running"
             /\ pc' = "running"
             /\ ~lastExit.seen
      /\ ExitStep
          => IF killed
             THEN /\ timedOut'
                  /\ deferred'.value = Null
             ELSE /\ ~timedOut'
                  /\ ~killed'
                  /\ killTimeout' = IF argvTimeout > 0 THEN "cleared" ELSE "undefined"
                  /\ deferred'.value =
                        IF lastExit'.code \in {0, 1}
                        THEN parseOutput(Concat(stdoutBuf), Concat(stderrBuf))
                        ELSE Null ]_vars

\* the timer fired, the subprocess was killed and then reported exit code 0:
\* the run counts as timed out
C17_Witness ==
  /\ pc = "f2"
  /\ argvTimeout > 0
  /\ killed
  /\ timedOut
  /\ lastExit = [seen |-> TRUE, code |-> 0]
  /\ deferred.value = Null

\* C18: attempts are numbered from 1 in steps of 1, and within attempt k the
\* prerun hook is called with k and its result has settled before the
\* subprocess is spawned; the postrun hook is called with k and the parse
\* result only after the subprocess has exited, and its result has settled
\* before the retry file is written or cleared and before attempt k+1 begins.
C18_AttemptOrder ==
  [][ /\ nextRun' # nextRun => nextRun' = nextRun + 1
      /\ prerun'.arg # prerun.arg
          => /\ hasPrerun
             /\ prerun'.arg = nextRun'
             /\ nextRun' = nextRun + 1
      /\ spawnCount' # spawnCount
          => /\ spawnCount' = nextRun
             /\ IF hasPrerun
                THEN prerun.arg = nextRun /\ prerun.state = "fulfilled"
                ELSE prerun = NoCall
      /\ postrun'.arg # postrun.arg
          => /\ hasPostrun
             /\ postrun'.arg = nextRun
             /\ spawnCount = nextRun
             /\ lastExit.seen
             /\ deferred.state = "fulfilled"
             /\ postrun'.specs = deferred.value
      /\ (hasPostrun /\ nextRun >= 1 /\ err = "none"
            /\ (retryFile' # retryFile \/ nextRun' # nextRun \/ pc = "f2b"))
          => /\ postrun.arg = nextRun
             /\ postrun.state = "fulfilled" ]_vars

\* the second attempt's subprocess runs: prerun(2) has settled, and so had
\* postrun(1, ...) before
C18_Witness ==
  /\ pc = "running"
  /\ nextRun = 2
  /\ spawnCount = 2
  /\ hasPrerun
  /\ hasPostrun
  /\ prerun = [arg |-> 2, specs |-> Unset, state |-> "fulfilled"]
  /\ postrun.arg = 1
  /\ postrun.state = "fulfilled"
  /\ retryFile.exists

(***************************************************************************)
(* Termination, checked under SpecLive.                                    *)
(***************************************************************************)
\* C19: if every subprocess exits in the end and every hook's promise
\* settles, the orchestrator ends, for every max-retries >= 0 and every
\* sequence of run outcomes: it does not retry forever.
C19_Terminates == <>Terminated

\* the longest run: every one of the three attempts allowed failed, with both
\* hooks installed, and the run ended as exhausted
C19_Witness ==
  /\ pc = "exit"
  /\ exitStatus = 2
  /\ argvMaxRetries = 3
  /\ spawnCount = 3
  /\ nextRun = 3
  /\ hasPrerun
  /\ hasPostrun

(***************************************************************************)
(* The retry file across runs, checked under Spec.                         *)
(***************************************************************************)
\* the specs the filter of the running subprocess admits, with no other
\* filter installed in it
Admitted ==
  {n \in TestNames :
     specFilter(IsRetryRunParam, childRetrySpecs, NoOriginal, n).decision}

\* the specs the previous attempt reported as failed
FailedBefore ==
  {n \in TestNames :
     \E k \in 1 .. Len(failedSpecs.specs) :
        EqualIgnoringCase(failedSpecs.specs[k], n)}

\* C20: the retry file does not leak between runs: the subprocess of attempt 1
\* is not restricted by a file an earlier run left behind (every spec is
\* admitted), and what attempt k+1 admits is determined by the failed specs
\* parsed from attempt k alone.
C20_NoStaleRetryState ==
  pc = "running"
     => Admitted = (IF nextRun = 1 THEN TestNames ELSE FailedBefore)

=============================================================================
